---- MODULE Spec2Model ----
(***************************************************************************)
(* VocalCoach: the transcript analyser (server/mistral.ts), the in-memory  *)
(* store (server/storage.ts, class MemStorage) and the route               *)
(* POST /api/sessions/analyze (server/routes.ts), as one state machine.    *)
(*                                                                         *)
(* Modelling conventions                                                   *)
(*  - A JavaScript number is an exact rational [k, n, d] (d > 0, lowest    *)
(*    terms); IEEE rounding error is not modelled.  `undefined` (an absent *)
(*    JSON field) is the value Undefined of the same record shape.         *)
(*  - A string is a sequence of one-character strings, so that split,      *)
(*    trim, toLowerCase and includes are computed, not assumed.            *)
(*  - A Date is [day, seq]: the calendar day (toDateString) and the rank   *)
(*    of the instant among the instants the store has stamped; two         *)
(*    sessions are never stamped with the same millisecond.                *)
(*  - One action is one synchronous run of JavaScript between two awaits.  *)
(*  - lex is one direct call of a pure helper: its arguments and, once it  *)
(*    has returned, its value.                                             *)
(***************************************************************************)
EXTENDS Integers, Sequences, FiniteSets, TLC

VARIABLES users, sessionsMap, progressMap, achievementsMap, now, reqs, lex, ui

vars == <<users, sessionsMap, progressMap, achievementsMap, now, reqs, lex, ui>>

----------------------------------------------------------------------------
(* JavaScript numbers as exact rationals *)

Abs(x) == IF x < 0 THEN -x ELSE x

RECURSIVE Gcd(_, _)
Gcd(a, b) == IF b = 0 THEN a ELSE Gcd(b, a % b)

\* n/d in lowest terms with a positive denominator (d # 0)
Num(n, d) ==
    LET s == IF d < 0 THEN -1 ELSE 1
        g == Gcd(Abs(n), Abs(d))
    IN  [k |-> "num", n |-> (s * n) \div g, d |-> (s * d) \div g]

Whole(n) == [k |-> "num", n |-> n, d |-> 1]

\* an absent field of a parsed JSON object
Undefined == [k |-> "undefined", n |-> 0, d |-> 1]

\* 0 / 0 and x / 0 for x > 0
NaN == [k |-> "NaN", n |-> 0, d |-> 1]
Infinity == [k |-> "Infinity", n |-> 1, d |-> 1]

\* what `x || y` tests: undefined and 0 are falsy
Truthy(v) == v.k = "num" /\ v.n # 0

\* x || y
OrElse(x, y) == IF Truthy(x) THEN x ELSE y

RAdd(a, b) == Num(a.n * b.d + b.n * a.d, a.d * b.d)
RSub(a, b) == Num(a.n * b.d - b.n * a.d, a.d * b.d)
RMul(a, b) == Num(a.n * b.n, a.d * b.d)
RDiv(a, b) == Num(a.n * b.d, a.d * b.n)
RLe(a, b) == a.n * b.d <= b.n * a.d
RLt(a, b) == a.n * b.d < b.n * a.d
RGe(a, b) == RLe(b, a)
RMin(a, b) == IF RLe(a, b) THEN a ELSE b
RMax(a, b) == IF RGe(a, b) THEN a ELSE b
IsInteger(a) == a.k = "num" /\ a.d = 1

\* Math.round: the nearest integer, halves towards +infinity
MathRound(a) == Whole((2 * a.n + a.d) \div (2 * a.d))

----------------------------------------------------------------------------
(* JavaScript strings as sequences of characters *)

IsWs(c) == c = " "

\* String.prototype.toLowerCase on the letters the transcripts use
LowerChar(c) ==
    CASE c = "I" -> "i"
      [] c = "U" -> "u"
      [] c = "L" -> "l"
      [] c = "S" -> "s"
      [] OTHER -> c

ToLowerCase(s) == [i \in 1..Len(s) |-> LowerChar(s[i])]

RECURSIVE TrimStart(_)
TrimStart(s) ==
    IF s # <<>> /\ IsWs(Head(s)) THEN TrimStart(Tail(s)) ELSE s

RECURSIVE TrimEnd(_)
TrimEnd(s) ==
    IF s # <<>> /\ IsWs(s[Len(s)]) THEN TrimEnd(SubSeq(s, 1, Len(s) - 1)) ELSE s

\* String.prototype.trim
Trim(s) == TrimEnd(TrimStart(s))

\* the members of the set `among` from lo to hi, in increasing order
RECURSIVE Positions(_, _, _)
Positions(among, lo, hi) ==
    IF lo > hi THEN <<>>
    ELSE IF lo = hi THEN (IF lo \in among THEN <<lo>> ELSE <<>>)
    ELSE Positions(among, lo, (lo + hi) \div 2) \o Positions(among, (lo + hi) \div 2 + 1, hi)

\* s.split(/\s+/): the pieces between maximal runs of whitespace; a leading
\* or trailing run leaves an empty piece, and "" splits into [""]
SplitWs(s) ==
    LET n == Len(s)
        first == Positions({i \in 1..n : ~IsWs(s[i]) /\ (i = 1 \/ IsWs(s[i - 1]))}, 1, n)
        last == Positions({i \in 1..n : ~IsWs(s[i]) /\ (i = n \/ IsWs(s[i + 1]))}, 1, n)
    IN  (IF n = 0 \/ IsWs(s[1]) THEN << <<>> >> ELSE <<>>)
        \o [k \in 1..Len(first) |-> SubSeq(s, first[k], last[k])]
        \o (IF n > 0 /\ IsWs(s[n]) THEN << <<>> >> ELSE <<>>)

\* word.includes(sub)
Includes(word, sub) ==
    \E i \in 0..(Len(word) - Len(sub)) : SubSeq(word, i + 1, i + Len(sub)) = sub

\* filler.replace(' ', ''): the first space only
RECURSIVE ReplaceFirstSpace(_)
ReplaceFirstSpace(s) ==
    IF s = <<>> THEN s
    ELSE IF Head(s) = " " THEN Tail(s)
    ELSE <<Head(s)>> \o ReplaceFirstSpace(Tail(s))

\* array.filter(p).length over a sequence
CountIf(seq, P(_)) == Cardinality({i \in 1..Len(seq) : P(seq[i])})

----------------------------------------------------------------------------
(* Lexical metrics (server/mistral.ts, helper functions) *)

S_um == <<"u", "m">>
S_uh == <<"u", "h">>
S_like == <<"l", "i", "k", "e">>
S_you == <<"y", "o", "u">>
S_know == <<"k", "n", "o", "w">>
S_you_know == S_you \o <<" ">> \o S_know
S_so == <<"s", "o">>
S_basically == <<"b", "a", "s", "i", "c", "a", "l", "l", "y">>
S_actually == <<"a", "c", "t", "u", "a", "l", "l", "y">>
S_literally == <<"l", "i", "t", "e", "r", "a", "l", "l", "y">>

\* the vocabulary of countFillers
CountFillerWords ==
    {S_um, S_uh, S_like, S_you_know, S_so, S_basically, S_actually, S_literally}

\* the vocabulary of getFillerBreakdown
BreakdownFillerWords == {S_um, S_uh, S_like, S_you_know, S_so}

\* the vocabulary of tokenizeTranscript
TokenFillerWords == {S_um, S_uh, S_like, S_you, S_know, S_so, S_basically}

\* the vocabulary of generateHighlights
HighlightFillerWords == {S_um, S_uh, S_like}

countWords(text) == CountIf(SplitWs(Trim(text)), LAMBDA word : Len(word) > 0)

\* no guard on durationSeconds: a division by 0 gives Infinity or NaN, which
\* Math.round returns unchanged
calculateWPM(text, durationSeconds) ==
    LET wordCount == countWords(text)
    IN  IF durationSeconds.n = 0
        THEN (IF wordCount = 0 THEN NaN ELSE Infinity)
        ELSE MathRound(RMul(RDiv(Whole(wordCount), durationSeconds), Whole(60)))

\* countFillers counting the words that are in the tokenizer's list
countFillers_WholeWord(text) ==
    LET words == SplitWs(ToLowerCase(text))
    IN  Cardinality({i \in 1..Len(words) : words[i] \in TokenFillerWords})

countFillers(text) ==
    CountIf(SplitWs(ToLowerCase(text)),
            LAMBDA word : \E filler \in CountFillerWords :
                              Includes(word, ReplaceFirstSpace(filler)))

getFillerBreakdown(text) ==
    [filler \in BreakdownFillerWords |->
        CountIf(SplitWs(ToLowerCase(text)),
                LAMBDA word : Includes(word, ReplaceFirstSpace(filler)))]

\* calculateClarityScore without the lower clamp
calculateClarityScore_NoFloor(text) ==
    LET wordCount == countWords(text)
        fillerCount == countFillers(text)
        fillerRatio == IF wordCount > 0 THEN Num(fillerCount, wordCount) ELSE Whole(0)
    IN  RMin(Whole(1), RSub(Whole(1), RMul(fillerRatio, Whole(2))))

calculateClarityScore(text) ==
    LET wordCount == countWords(text)
        fillerCount == countFillers(text)
        fillerRatio == IF wordCount > 0 THEN Num(fillerCount, wordCount) ELSE Whole(0)
    IN  RMax(Num(3, 10), RMin(Whole(1), RSub(Whole(1), RMul(fillerRatio, Whole(2)))))

\* getPaceScore with the upper edge of each band excluded
getPaceScore_UpperExcluded(wpm) ==
    IF wpm.k # "num" THEN Whole(40)
    ELSE IF RGe(wpm, Whole(110)) /\ RLt(wpm, Whole(140)) THEN Whole(100)
    ELSE IF RGe(wpm, Whole(90)) /\ RLt(wpm, Whole(160)) THEN Whole(80)
    ELSE IF RGe(wpm, Whole(70)) /\ RLt(wpm, Whole(180)) THEN Whole(60)
    ELSE Whole(40)

\* every comparison with NaN is false, and Infinity is above every band
getPaceScore(wpm) ==
    IF wpm.k # "num" THEN Whole(40)
    ELSE IF RGe(wpm, Whole(110)) /\ RLe(wpm, Whole(140)) THEN Whole(100)
    ELSE IF RGe(wpm, Whole(90)) /\ RLe(wpm, Whole(160)) THEN Whole(80)
    ELSE IF RGe(wpm, Whole(70)) /\ RLe(wpm, Whole(180)) THEN Whole(60)
    ELSE Whole(40)

tokenizeTranscript(text) ==
    LET words == SplitWs(text)
    IN  [index \in 1..Len(words) |->
            [t |-> words[index],
             type |-> IF ToLowerCase(words[index]) \in TokenFillerWords
                      THEN "filler" ELSE "word",
             start_ms |-> (index - 1) * 500,
             end_ms |-> index * 500]]

\* forEach over the words, pushing one highlight per filler word
RECURSIVE HighlightsFrom(_, _)
HighlightsFrom(words, index) ==
    IF index > Len(words) THEN <<>>
    ELSE (IF ToLowerCase(words[index]) \in HighlightFillerWords
          THEN <<[type |-> "filler", start_ms |-> (index - 1) * 500,
                  end_ms |-> index * 500, text |-> words[index]]>>
          ELSE <<>>) \o HighlightsFrom(words, index + 1)

generateHighlights(text) == HighlightsFrom(SplitWs(text), 1)

generateRecommendations(text, durationSeconds) ==
    LET wpm == calculateWPM(text, durationSeconds)
        fillerCount == countFillers(text)
    IN  (IF fillerCount > 3 THEN <<"rec-breathe">> ELSE <<>>)
        \o (IF wpm.k = "num" /\ RLt(wpm, Whole(110)) THEN <<"rec-pace">>
            ELSE IF wpm.k = "Infinity" \/ (wpm.k = "num" /\ RLt(Whole(140), wpm))
                 THEN <<"rec-slow">> ELSE <<>>)
        \o (IF RLt(durationSeconds, Whole(60)) THEN <<"rec-length">> ELSE <<>>)

\* calculateOverallScore returning Math.round(score) without the clamp
calculateOverallScore_NoClamp(text, durationSeconds) ==
  IF countWords(text) = 0 THEN NaN ELSE
    LET wpm == calculateWPM(text, durationSeconds)
        fillerPenalty ==
            RMin(Whole(30),
                 RMul(RMul(Num(countFillers(text), countWords(text)), Whole(100)), Num(3, 10)))
        s1 == RSub(Whole(100), fillerPenalty)
        s2 == RAdd(RMul(s1, Num(8, 10)), RMul(getPaceScore(wpm), Num(2, 10)))
        s3 == RAdd(RMul(s2, Num(8, 10)),
                   RMul(RMul(calculateClarityScore(text), Whole(100)), Num(2, 10)))
        s4 == IF RGe(durationSeconds, Whole(120)) THEN RAdd(s3, Whole(5)) ELSE s3
        s5 == IF RLt(durationSeconds, Whole(30)) THEN RSub(s4, Whole(10)) ELSE s4
    IN  MathRound(s5)

\* with no word in text fillerCount / wordCount is 0 / 0 and NaN passes
\* through every later step, Math.round, Math.min and Math.max included
calculateOverallScore(text, durationSeconds) ==
  IF countWords(text) = 0 THEN NaN ELSE
    LET wpm == calculateWPM(text, durationSeconds)
        fillerCount == countFillers(text)
        wordCount == countWords(text)
        clarityScore == calculateClarityScore(text)
        fillerPenalty ==
            RMin(Whole(30), RMul(RMul(Num(fillerCount, wordCount), Whole(100)), Num(3, 10)))
        s1 == RSub(Whole(100), fillerPenalty)
        paceScore == getPaceScore(wpm)
        s2 == RAdd(RMul(s1, Num(8, 10)), RMul(paceScore, Num(2, 10)))
        s3 == RAdd(RMul(s2, Num(8, 10)), RMul(RMul(clarityScore, Whole(100)), Num(2, 10)))
        s4 == IF RGe(durationSeconds, Whole(120)) THEN RAdd(s3, Whole(5)) ELSE s3
        s5 == IF RLt(durationSeconds, Whole(30)) THEN RSub(s4, Whole(10)) ELSE s4
    IN  RMax(Whole(0), RMin(Whole(100), MathRound(s5)))

\* calculateWPM of client/src/lib/audio-analysis.ts, which takes the word count
calculateWPM_client(wordCount, durationSeconds) ==
    IF durationSeconds.n = 0 THEN Whole(0)
    ELSE MathRound(RMul(RDiv(Whole(wordCount), durationSeconds), Whole(60)))

----------------------------------------------------------------------------
(* analyzeAudio (server/mistral.ts) *)

\* the single segment built when the model returned no transcript
FallbackTranscript(transcript, durationSeconds) ==
    <<[start_ms |-> Whole(0),
       end_ms |-> RMul(durationSeconds, Whole(1000)),
       text |-> transcript,
       tokens |-> tokenizeTranscript(transcript)]>>

MetricNames ==
    {"total_words", "words_per_minute", "total_fillers", "fillers_per_minute",
     "avg_pause_ms", "energy_mean", "pitch_median_hz", "clarity_score",
     "confidence", "paceScore", "fillerImprovement"}

\* FallbackMetrics with fillers_per_minute divided by the seconds, not the minutes
FallbackMetrics_PerSecond(transcript, durationSeconds) ==
    [total_words |-> Whole(countWords(transcript)),
     words_per_minute |-> calculateWPM(transcript, durationSeconds),
     total_fillers |-> Whole(countFillers(transcript)),
     fillers_per_minute |-> RDiv(Whole(countFillers(transcript)), durationSeconds),
     avg_pause_ms |-> Whole(400),
     energy_mean |-> Whole(-18),
     pitch_median_hz |-> Whole(180),
     clarity_score |-> calculateClarityScore(transcript),
     confidence |-> Num(85, 100),
     paceScore |-> getPaceScore(calculateWPM(transcript, durationSeconds)),
     fillerImprovement |->
         RMax(Whole(0), RSub(Whole(100), RMul(Whole(countFillers(transcript)), Whole(10))))]

\* the right-hand sides of `||` in the metrics object
FallbackMetrics(transcript, durationSeconds) ==
    [total_words |-> Whole(countWords(transcript)),
     words_per_minute |-> calculateWPM(transcript, durationSeconds),
     total_fillers |-> Whole(countFillers(transcript)),
     fillers_per_minute |->
         RDiv(Whole(countFillers(transcript)), RDiv(durationSeconds, Whole(60))),
     avg_pause_ms |-> Whole(400),
     energy_mean |-> Whole(-18),
     pitch_median_hz |-> Whole(180),
     clarity_score |-> calculateClarityScore(transcript),
     confidence |-> Num(85, 100),
     paceScore |-> getPaceScore(calculateWPM(transcript, durationSeconds)),
     fillerImprovement |->
         RMax(Whole(0), RSub(Whole(100), RMul(Whole(countFillers(transcript)), Whole(10))))]

\* the object returned by the catch block
FallbackAnalysis(transcript, durationSeconds) ==
    [transcript |-> FallbackTranscript(transcript, durationSeconds),
     metrics |-> FallbackMetrics(transcript, durationSeconds),
     fillerBreakdown |-> getFillerBreakdown(transcript),
     highlights |-> generateHighlights(transcript),
     recommendations |-> generateRecommendations(transcript, durationSeconds),
     score |-> calculateOverallScore(transcript, durationSeconds)]

\* analysisResult.metrics?.<name>
PayloadMetric(analysisResult, name) ==
    IF analysisResult.metrics.present THEN analysisResult.metrics.v[name] ELSE Undefined

\* `a || b` for an array or object a: null and undefined are falsy, every array
\* and object (the empty ones too) is truthy
StructOrElse(field, fallback) == IF field.present THEN field.v ELSE fallback

Absent(v) == [present |-> FALSE, v |-> v]
Present(v) == [present |-> TRUE, v |-> v]

\* {}: every field absent
EmptyPayload ==
    [transcript |-> Absent(<<>>),
     metrics |-> Absent([name \in MetricNames |-> Undefined]),
     fillerBreakdown |-> Absent([filler \in {} |-> 0]),
     highlights |-> Absent(<<>>),
     recommendations |-> Absent(<<>>),
     score |-> Undefined]

\* the object returned by the try block, from the parsed payload
MergedAnalysis(analysisResult, transcript, durationSeconds) ==
    LET fb == FallbackMetrics(transcript, durationSeconds)
    IN  [transcript |-> StructOrElse(analysisResult.transcript,
                                     FallbackTranscript(transcript, durationSeconds)),
         metrics |-> [name \in MetricNames |->
                         OrElse(PayloadMetric(analysisResult, name), fb[name])],
         fillerBreakdown |-> StructOrElse(analysisResult.fillerBreakdown,
                                          getFillerBreakdown(transcript)),
         highlights |-> StructOrElse(analysisResult.highlights,
                                     generateHighlights(transcript)),
         recommendations |-> StructOrElse(analysisResult.recommendations,
                                          generateRecommendations(transcript, durationSeconds)),
         score |-> OrElse(analysisResult.score,
                          calculateOverallScore(transcript, durationSeconds))]

\* The outcomes of the try block up to line 80:
\*   "reject"     mistral.chat.complete rejects
\*   "unparsable" the content is not JSON: JSON.parse throws
\*   "jsonNull"   the content is the JSON text null: reading a field of it throws
\*   "noContent"  no choices or empty content: "{}" is parsed
\*   "object"     the content is a JSON object, the payload
ThrowsInTry(outcome) == outcome.kind \in {"reject", "unparsable", "jsonNull"}

\* JSON.parse(response.choices?.[0]?.message?.content || "{}")
ParsedContent(outcome) ==
    IF outcome.kind = "noContent" THEN EmptyPayload ELSE outcome.payload

analyzeAudio(transcript, durationSeconds, outcome) ==
    IF ThrowsInTry(outcome)
    THEN FallbackAnalysis(transcript, durationSeconds)
    ELSE MergedAnalysis(ParsedContent(outcome), transcript, durationSeconds)

----------------------------------------------------------------------------
(* MemStorage (server/storage.ts) *)

RecentLimit == 5
StreakDays == 7
ScoreTarget == 80
TimeMasterMs == 300000
InitialWeeklyGoal == 7
MinDurationMs == 1000

\* lastSessionAt: null
NullDate == [day |-> -1, seq |-> 0]

\* the UserProgress record createUser stores
InitialProgress ==
    [totalSessions |-> 0,
     currentStreak |-> 0,
     bestScore |-> Whole(0),
     avgFillerReduction |-> Whole(0),
     avgPaceControl |-> Whole(0),
     weeklyGoal |-> InitialWeeklyGoal,
     weeklyCompleted |-> 0,
     lastSessionAt |-> NullDate,
     updatedAt |-> 0]

\* Map.get: the value in a one-element sequence, or <<>> for undefined
MapGet(map, key) == IF key \in DOMAIN map THEN <<map[key]>> ELSE <<>>

\* Map.set
MapSet(map, key, value) == [x \in DOMAIN map \cup {key} |-> IF x = key THEN value ELSE map[x]]

\* Date.getTime order of two stamps
Later(a, b) == a.day > b.day \/ (a.day = b.day /\ a.seq > b.seq)

\* Array.prototype.sort((a, b) => b.createdAt - a.createdAt): stable, newest first
RECURSIVE InsertByCreatedAt(_, _)
InsertByCreatedAt(sorted, s) ==
    IF sorted = <<>> THEN <<s>>
    ELSE IF Later(s.createdAt, Head(sorted).createdAt)
         THEN <<s>> \o sorted
         ELSE <<Head(sorted)>> \o InsertByCreatedAt(Tail(sorted), s)

RECURSIVE SortByCreatedAtDesc(_)
SortByCreatedAtDesc(seq) ==
    IF seq = <<>> THEN <<>>
    ELSE InsertByCreatedAt(SortByCreatedAtDesc(SubSeq(seq, 1, Len(seq) - 1)), seq[Len(seq)])

\* variant: every session of the user is returned, the limit is ignored
getUserSessions_NoLimit(map, userId, limit) ==
    SortByCreatedAtDesc(SelectSeq(map, LAMBDA session : session.userId = userId))

getUserSessions(map, userId, limit) ==
    LET userSessions == SortByCreatedAtDesc(SelectSeq(map, LAMBDA session : session.userId = userId))
    IN  SubSeq(userSessions, 1, IF Len(userSessions) < limit THEN Len(userSessions) ELSE limit)

\* some() over the recent sessions: one of them was created on that calendar day
HasSessionOn(recentSessions, day) ==
    \E i \in 1..Len(recentSessions) : recentSessions[i].createdAt.day = day

\* NewStreak resetting to 1 whenever no recent session is of today
NewStreak_ResetWithoutToday(currentProgress, recentSessions, today) ==
    LET hasSessionToday == HasSessionOn(recentSessions, today)
        hasSessionYesterday == HasSessionOn(recentSessions, today - 1)
    IN  IF hasSessionToday /\ currentProgress.lastSessionAt = NullDate THEN 1
        ELSE IF hasSessionToday /\ hasSessionYesterday THEN currentProgress.currentStreak + 1
        ELSE IF ~hasSessionYesterday \/ ~hasSessionToday THEN 1
        ELSE currentProgress.currentStreak

\* the streak decision list of updateUserProgressAfterSession
NewStreak(currentProgress, recentSessions, today) ==
    LET hasSessionToday == HasSessionOn(recentSessions, today)
        hasSessionYesterday == HasSessionOn(recentSessions, today - 1)
    IN  IF hasSessionToday /\ currentProgress.lastSessionAt = NullDate THEN 1
        ELSE IF hasSessionToday /\ hasSessionYesterday THEN currentProgress.currentStreak + 1
        ELSE IF ~hasSessionYesterday THEN 1
        ELSE currentProgress.currentStreak

\* the metrics the store reads back from a stored session
StoreMetricNames == {"fillerImprovement", "paceScore"}

RECURSIVE SumMetric(_, _)
SumMetric(recentSessions, name) ==
    IF recentSessions = <<>> THEN Whole(0)
    ELSE RAdd(OrElse(Head(recentSessions).metrics[name], Whole(0)),
              SumMetric(Tail(recentSessions), name))

\* variant: the sum is divided by the limit of the query, not by the number of
\* sessions found
AverageMetric_DivideByLimit(recentSessions, name) ==
    IF Len(recentSessions) > 0
    THEN RDiv(SumMetric(recentSessions, name), Whole(RecentLimit))
    ELSE Whole(0)

\* reduce(...) / recentSessions.length, 0 when there is no session
AverageMetric(recentSessions, name) ==
    IF Len(recentSessions) > 0
    THEN RDiv(SumMetric(recentSessions, name), Whole(Len(recentSessions)))
    ELSE Whole(0)

\* variant: the update also counts the session towards the weekly goal
ProgressUpdate_CountsWeekly(currentProgress, recentSessions, session, today) ==
    [totalSessions |-> currentProgress.totalSessions + 1,
     currentStreak |-> NewStreak(currentProgress, recentSessions, today),
     bestScore |-> RMax(OrElse(currentProgress.bestScore, Whole(0)), session.score),
     avgFillerReduction |-> AverageMetric(recentSessions, "fillerImprovement"),
     avgPaceControl |-> AverageMetric(recentSessions, "paceScore"),
     weeklyCompleted |-> currentProgress.weeklyCompleted + 1,
     lastSessionAt |-> session.createdAt]

\* the partial record handed to updateUserProgress
ProgressUpdate(currentProgress, recentSessions, session, today) ==
    [totalSessions |-> currentProgress.totalSessions + 1,
     currentStreak |-> NewStreak(currentProgress, recentSessions, today),
     bestScore |-> RMax(OrElse(currentProgress.bestScore, Whole(0)), session.score),
     avgFillerReduction |-> AverageMetric(recentSessions, "fillerImprovement"),
     avgPaceControl |-> AverageMetric(recentSessions, "paceScore"),
     lastSessionAt |-> session.createdAt]

\* updateUserProgress writing the update into every stored record
updateUserProgress_EveryUser(map, userId, progressUpdate, today) ==
    [id \in DOMAIN map |->
        [name \in DOMAIN map[id] |->
            IF name = "updatedAt" THEN today
            ELSE IF name \in DOMAIN progressUpdate THEN progressUpdate[name]
            ELSE map[id][name]]]

\* updateUserProgress: the stored record overwritten field by field (the
\* record exists: the caller returned early otherwise)
\* variant: the update is applied in part, lastSessionAt is left as it was
updateUserProgress_Partial(map, userId, progressUpdate, today) ==
    MapSet(map, userId,
           [name \in DOMAIN map[userId] |->
               IF name = "updatedAt" THEN today
               ELSE IF name \in DOMAIN progressUpdate \ {"lastSessionAt"}
                    THEN progressUpdate[name]
               ELSE map[userId][name]])

updateUserProgress(map, userId, progressUpdate, today) ==
    MapSet(map, userId,
           [name \in DOMAIN map[userId] |->
               IF name = "updatedAt" THEN today
               ELSE IF name \in DOMAIN progressUpdate THEN progressUpdate[name]
               ELSE map[userId][name]])

AchievementRules == <<"streak_7", "score_80", "time_master">>

\* the left conjunct of each `if` of checkAchievements
RuleHolds(type, session, streak) ==
    CASE type = "streak_7" -> streak >= StreakDays
      [] type = "score_80" -> RGe(session.score, Whole(ScoreTarget))
      [] type = "time_master" -> session.durationMs >= TimeMasterMs

\* NextAward without the `!achievementTypes.includes(...)` conjunct
RECURSIVE NextAward_NoPreCheck(_, _, _, _)
NextAward_NoPreCheck(from, achievementTypes, session, streak) ==
    IF from > Len(AchievementRules) THEN from
    ELSE IF RuleHolds(AchievementRules[from], session, streak)
         THEN from
         ELSE NextAward_NoPreCheck(from + 1, achievementTypes, session, streak)

\* the first rule at or after `from` whose `if` is taken, or
\* Len(AchievementRules) + 1 when none is
RECURSIVE NextAward(_, _, _, _)
\* variant: the rules form an `else if` chain, nothing is tested after the
\* first award
NextAward_ElseIf(from, achievementTypes, session, streak) ==
    LET taken == {i \in 1..Len(AchievementRules) :
                     /\ RuleHolds(AchievementRules[i], session, streak)
                     /\ AchievementRules[i] \notin achievementTypes}
    IN  IF from > 1 \/ taken = {} THEN Len(AchievementRules) + 1
        ELSE CHOOSE i \in taken : \A j \in taken : i <= j

NextAward(from, achievementTypes, session, streak) ==
    IF from > Len(AchievementRules) THEN from
    ELSE IF RuleHolds(AchievementRules[from], session, streak)
            /\ AchievementRules[from] \notin achievementTypes
         THEN from
         ELSE NextAward(from + 1, achievementTypes, session, streak)

\* userAchievements.sort((a, b) => b.unlockedAt - a.unlockedAt) after the push:
\* stable, so the pushed element goes behind those unlocked no earlier
RECURSIVE InsertByUnlockedAt(_, _)
InsertByUnlockedAt(sorted, a) ==
    IF sorted = <<>> THEN <<a>>
    ELSE IF a.unlockedAt > Head(sorted).unlockedAt
         THEN <<a>> \o sorted
         ELSE <<Head(sorted)>> \o InsertByUnlockedAt(Tail(sorted), a)

createAchievement(map, userId, type, today) ==
    LET userAchievements == IF userId \in DOMAIN map THEN map[userId] ELSE <<>>
    IN  MapSet(map, userId,
               InsertByUnlockedAt(userAchievements, [type |-> type, unlockedAt |-> today]))

\* existingAchievements.map(a => a.type), read through includes()
AchievementTypes(map, userId) ==
    IF userId \in DOMAIN map THEN {map[userId][i].type : i \in 1..Len(map[userId])} ELSE {}

----------------------------------------------------------------------------
(* The responses of the language model: parsed JSON payloads *)

MaxWords == 2
MaxDay == 2
MaxInFlight == 2
MaxSeqSessions == 7
MaxClockSessions == 3

S_hi == <<"h", "i">>
S_some == <<"s", "o", "m", "e">>
S_Um == <<"U", "m">>

\* the example object of the system prompt, every field present and non-zero
FullMetrics ==
    [total_words |-> Whole(50),
     words_per_minute |-> Whole(120),
     total_fillers |-> Whole(5),
     fillers_per_minute |-> Whole(12),
     avg_pause_ms |-> Whole(300),
     energy_mean |-> Whole(-20),
     pitch_median_hz |-> Whole(200),
     clarity_score |-> Num(85, 100),
     confidence |-> Num(90, 100),
     paceScore |-> Whole(75),
     fillerImprovement |-> Whole(20)]

FullPayload ==
    [transcript |-> Present(<<[start_ms |-> Whole(0), end_ms |-> Whole(1000), text |-> S_hi,
                              tokens |-> <<[t |-> S_hi, type |-> "word",
                                            start_ms |-> 0, end_ms |-> 500]>>]>>),
     metrics |-> Present(FullMetrics),
     fillerBreakdown |-> Present([filler \in {S_um, S_uh, S_like} |->
                                     IF filler = S_um THEN 3 ELSE IF filler = S_uh THEN 2 ELSE 1]),
     highlights |-> Present(<<[type |-> "filler", start_ms |-> 0, end_ms |-> 200, text |-> S_um]>>),
     recommendations |-> Present(<<"rec-breathe">>),
     score |-> Whole(82)]

\* scores a model may return: absent, zero, in range, out of range, fractional
PayloadScores == {Undefined, Whole(0), Whole(85), Whole(150), Whole(-5), Num(145, 2)}

\* FullPayload with one field absent, zero or out of range
Payloads ==
    {EmptyPayload, FullPayload}
    \cup {[FullPayload EXCEPT !.score = v] : v \in PayloadScores}
    \cup {[FullPayload EXCEPT !.metrics.v[name] = v] :
             name \in MetricNames, v \in {Undefined, Whole(0)}}
    \cup {[FullPayload EXCEPT !.metrics = EmptyPayload.metrics],
          [FullPayload EXCEPT !.transcript = EmptyPayload.transcript],
          [FullPayload EXCEPT !.fillerBreakdown = EmptyPayload.fillerBreakdown],
          [FullPayload EXCEPT !.highlights = EmptyPayload.highlights],
          [FullPayload EXCEPT !.recommendations = EmptyPayload.recommendations]}

Outcome(kind, payload) == [kind |-> kind, payload |-> payload]

FailOutcomes ==
    {Outcome(kind, EmptyPayload) : kind \in {"reject", "unparsable", "jsonNull", "noContent"}}

ObjectOutcomes == {Outcome("object", payload) : payload \in Payloads}

----------------------------------------------------------------------------
(* Request bodies *)

Vocabulary == {S_um, S_some, S_hi}

\* words joined by single spaces
RECURSIVE Join(_)
Join(words) ==
    IF words = <<>> THEN <<>>
    ELSE IF Len(words) = 1 THEN Head(words)
    ELSE Head(words) \o <<" ">> \o Join(Tail(words))

WordLists == UNION {[1..n -> Vocabulary] : n \in 1..MaxWords}

\* transcripts of 1..MaxWords words, bare or with leading or trailing space,
\* and the blank transcripts
Transcripts ==
    {Join(ws) : ws \in WordLists}
    \cup {<<" ">> \o Join(ws) : ws \in WordLists}
    \cup {Join(ws) \o <<" ">> : ws \in WordLists}
    \cup {<<>>, <<" ">>, <<" ", " ">>, S_Um \o <<" ">> \o S_you \o <<" ">> \o S_know}

Durations == {-1000, 0, 999, 1000, 10000, 120000, 360000}

Body(practiceMode, transcript, durationMs, outcome) ==
    [practiceMode |-> practiceMode, transcript |-> transcript,
     durationMs |-> durationMs, outcome |-> outcome]

\* the submissions of the analyser study: every transcript and duration with
\* a failing or empty model response, and every payload on two transcripts
AnalyzeInputs ==
    {Body("free", t, d, o) : t \in Transcripts, d \in Durations, o \in FailOutcomes}
    \cup {Body("free", t, d, o) : t \in {S_hi, S_um \o <<" ">> \o S_some},
                                   d \in {10000, 360000}, o \in ObjectOutcomes}
    \cup {Body("", S_hi, 10000, Outcome("reject", EmptyPayload))}

\* a long clean session (fallback score 95) and a short poor one (47)
GoodLong == Body("free", S_hi, 360000, Outcome("reject", EmptyPayload))
PoorShort == Body("free", S_um, 1000, Outcome("reject", EmptyPayload))

StoreInputs == {GoodLong, PoorShort}

----------------------------------------------------------------------------
(* The requests in flight *)

Slots == 1..MaxInFlight

NoAnalysis ==
    [transcript |-> <<>>,
     metrics |-> [name \in MetricNames |-> Undefined],
     fillerBreakdown |-> [filler \in {} |-> 0],
     highlights |-> <<>>,
     recommendations |-> <<>>,
     score |-> Undefined]

\* a slot with no request: pc is the await the request is suspended at
IdleRequest ==
    [pc |-> "idle",
     userId |-> "",
     body |-> Body("", <<>>, 0, Outcome("reject", EmptyPayload)),
     analysis |-> NoAnalysis,
     session |-> <<>>,
     currentProgress |-> <<>>,
     recentSessions |-> <<>>,
     today |-> 0,
     newStreak |-> 0,
     achievementTypes |-> {},
     rule |-> 1,
     status |-> 0]

\* ValidationError testing `!transcript` alone, without the trim
ValidationError_NoTrim(userId, body) ==
    IF userId = "" \/ body.practiceMode = "" THEN "Missing userId or practiceMode"
    ELSE IF body.transcript = <<>> THEN "No transcript available"
    ELSE IF body.durationMs = 0 \/ body.durationMs < MinDurationMs THEN "Invalid session duration"
    ELSE ""

\* the checks of the route before analyzeAudio, in order; "" when all pass
ValidationError(userId, body) ==
    IF userId = "" \/ body.practiceMode = "" THEN "Missing userId or practiceMode"
    ELSE IF body.transcript = <<>> \/ Trim(body.transcript) = <<>> THEN "No transcript available"
    ELSE IF body.durationMs = 0 \/ body.durationMs < MinDurationMs THEN "Invalid session duration"
    ELSE ""

\* submissions that have passed validation and not yet stored a session
Pending == {r \in DOMAIN reqs : reqs[r].pc \in {"analyzing", "create"}}

\* no direct call of a helper
NoCall == [pc |-> "idle", fn |-> "", text |-> <<>>, durationSeconds |-> Whole(1),
           wpm |-> Whole(0), wordCount |-> 0, result |-> Undefined]

----------------------------------------------------------------------------
(* Routes *)

\* POST /api/users/init with MemStorage.createUser: the store keys the user,
\* its progress and its achievements by a fresh random id
UsersInit(userId, pool) ==
    /\ userId \notin DOMAIN users
    /\ \E id \in pool \ DOMAIN users :
        /\ users' = MapSet(users, id, [username |-> userId])
        /\ progressMap' = MapSet(progressMap, id, [InitialProgress EXCEPT !.updatedAt = now])
        /\ achievementsMap' = MapSet(achievementsMap, id, <<>>)
    /\ UNCHANGED <<sessionsMap, now, reqs, lex, ui>>

\* POST /api/sessions/analyze up to the call of mistral.chat.complete
Submit(r, userId, body, cap, reuse) ==
    /\ reqs[r].pc = "idle" \/ (reuse /\ reqs[r].pc = "done")
    /\ Len(sessionsMap) + Cardinality(Pending) < cap
    /\ reqs' = [reqs EXCEPT ![r] =
           IF ValidationError(userId, body) # ""
           THEN [IdleRequest EXCEPT !.pc = "done", !.userId = userId, !.body = body,
                                    !.status = 400]
           ELSE [IdleRequest EXCEPT !.pc = "analyzing", !.userId = userId, !.body = body]]
    /\ UNCHANGED <<users, sessionsMap, progressMap, achievementsMap, now, lex, ui>>

\* the promise of mistral.chat.complete neither resolves nor rejects; the
\* call is given no timeout and no abort signal
NeverSettles(outcome) == outcome.kind = "pending"

\* analyzeAudio settles and the route builds sessionData
AnalyzeDone(r) ==
    /\ reqs[r].pc = "analyzing"
    /\ ~NeverSettles(reqs[r].body.outcome)
    /\ reqs' = [reqs EXCEPT ![r].pc = "create",
                            ![r].analysis =
                                analyzeAudio(reqs[r].body.transcript,
                                             Num(reqs[r].body.durationMs, 1000),
                                             reqs[r].body.outcome)]
    /\ UNCHANGED <<users, sessionsMap, progressMap, achievementsMap, now, lex, ui>>

\* createSession up to `await this.getUserProgress(userId)`: the session is
\* stored and the progress record is read.  (transcript, fillerBreakdown,
\* highlights, recommendations, audioUri, videoUri and the other metrics are
\* stored with it and never read back by the store.)
CreateSession(r) ==
    /\ reqs[r].pc = "create"
    /\ LET session == [userId |-> reqs[r].userId,
                       durationMs |-> reqs[r].body.durationMs,
                       metrics |-> [name \in StoreMetricNames |-> reqs[r].analysis.metrics[name]],
                       score |-> reqs[r].analysis.score,
                       practiceMode |-> reqs[r].body.practiceMode,
                       createdAt |-> [day |-> now, seq |-> Len(sessionsMap) + 1]]
       IN  /\ sessionsMap' = Append(sessionsMap, session)
           /\ reqs' = [reqs EXCEPT ![r].pc = "progress",
                                   ![r].session = <<session>>,
                                   ![r].currentProgress = MapGet(progressMap, reqs[r].userId)]
    /\ UNCHANGED <<users, progressMap, achievementsMap, now, lex, ui>>

\* updateUserProgressAfterSession from `if (!currentProgress) return` to
\* `await this.getUserSessions(userId, 5)`: with no progress record it returns
\* and createSession returns the session; otherwise the recent sessions are read
ReadSessions(r) ==
    /\ reqs[r].pc = "progress"
    /\ reqs' = [reqs EXCEPT ![r] =
           IF reqs[r].currentProgress = <<>>
           THEN [reqs[r] EXCEPT !.pc = "respond"]
           ELSE [reqs[r] EXCEPT !.pc = "update",
                                !.recentSessions =
                                    getUserSessions(sessionsMap, reqs[r].userId, RecentLimit)]]
    /\ UNCHANGED <<users, sessionsMap, progressMap, achievementsMap, now, lex, ui>>

\* from `const today = new Date()` to `await this.updateUserProgress(...)`,
\* then the call of checkAchievements up to `await this.getUserAchievements`,
\* which reads and writes nothing
UpdateProgress(r) ==
    /\ reqs[r].pc = "update"
    /\ LET update == ProgressUpdate(reqs[r].currentProgress[1], reqs[r].recentSessions,
                                    reqs[r].session[1], now)
       IN  /\ progressMap' = updateUserProgress(progressMap, reqs[r].userId, update, now)
           /\ reqs' = [reqs EXCEPT ![r].pc = "achievements",
                                   ![r].today = now,
                                   ![r].newStreak = update.currentStreak]
    /\ UNCHANGED <<users, sessionsMap, achievementsMap, now, lex, ui>>

\* checkAchievements from `existingAchievements.map` (rule = 1) or from the
\* resumption after a createAchievement (rule > 1) to the next createAchievement,
\* which pushes before its caller is suspended, or to the end
CheckAchievements(r) ==
    /\ reqs[r].pc = "achievements"
    /\ LET achievementTypes ==
               IF reqs[r].rule = 1 THEN AchievementTypes(achievementsMap, reqs[r].userId)
               ELSE reqs[r].achievementTypes
           award == NextAward(reqs[r].rule, achievementTypes, reqs[r].session[1],
                              reqs[r].newStreak)
       IN  IF award > Len(AchievementRules)
           THEN /\ reqs' = [reqs EXCEPT ![r].pc = "respond",
                                        ![r].achievementTypes = achievementTypes]
                /\ UNCHANGED achievementsMap
           ELSE /\ achievementsMap' = createAchievement(achievementsMap, reqs[r].userId,
                                                        AchievementRules[award], now)
                /\ reqs' = [reqs EXCEPT ![r].rule = award + 1,
                                        ![r].achievementTypes = achievementTypes]
    /\ UNCHANGED <<users, sessionsMap, progressMap, now, lex, ui>>

\* res.json({ sessionId, analysis })
Respond(r) ==
    /\ reqs[r].pc = "respond"
    /\ reqs' = [reqs EXCEPT ![r] =
           [IdleRequest EXCEPT !.pc = "done", !.userId = reqs[r].userId, !.status = 200]]
    /\ UNCHANGED <<users, sessionsMap, progressMap, achievementsMap, now, lex, ui>>

\* midnight passes
NextDay ==
    /\ now < MaxDay
    /\ now' = now + 1
    /\ UNCHANGED <<users, sessionsMap, progressMap, achievementsMap, reqs, lex, ui>>

Step(r) ==
    \/ AnalyzeDone(r)
    \/ CreateSession(r)
    \/ ReadSessions(r)
    \/ UpdateProgress(r)
    \/ CheckAchievements(r)
    \/ Respond(r)

----------------------------------------------------------------------------
(* Specifications *)

DemoUserId == "demo-user-123"
UuidPool == {"uuid-1"}

\* The recording interface of the client: the state of useAudioRecorder and of
\* the component, the recordings made so far, whether the effect has to run
\* again because one of its dependencies changed, the upload in flight and the
\* number of uploadAudio calls made for each recording.
MaxRecordings == 3
MaxUploads == 3

NoRecorder ==
    [isRecording |-> FALSE,
     audioBlob |-> 0,
     isProcessing |-> FALSE,
     recordings |-> 0,
     effectDue |-> FALSE,
     upload |-> "none",
     calls |-> [k \in 1..MaxRecordings |-> 0]]

\* handleRecordToggle while idle: the button is disabled while processing
startRecording ==
    /\ ~ui.isRecording
    /\ ~ui.isProcessing
    /\ ui.recordings < MaxRecordings
    /\ ui' = [ui EXCEPT !.isRecording = TRUE,
                        !.audioBlob = 0,
                        !.recordings = @ + 1,
                        !.effectDue = TRUE]
    /\ UNCHANGED <<users, sessionsMap, progressMap, achievementsMap, now, reqs, lex>>

\* handleRecordToggle while recording, and mediaRecorder.onstop
stopRecording ==
    /\ ui.isRecording
    /\ ui' = [ui EXCEPT !.isRecording = FALSE,
                        !.audioBlob = ui.recordings,
                        !.effectDue = TRUE]
    /\ UNCHANGED <<users, sessionsMap, progressMap, achievementsMap, now, reqs, lex>>

\* useEffect(..., [recorder.audioBlob, recorder.isRecording, isProcessing])
RecordingEffect ==
    /\ ui.effectDue
    /\ IF ui.audioBlob # 0 /\ ~ui.isRecording /\ ~ui.isProcessing
       THEN /\ ui.calls[ui.audioBlob] < MaxUploads
            /\ ui' = [ui EXCEPT !.isProcessing = TRUE,
                                !.upload = "pending",
                                !.calls[ui.audioBlob] = @ + 1,
                                !.effectDue = TRUE]
       ELSE ui' = [ui EXCEPT !.effectDue = FALSE]
    /\ UNCHANGED <<users, sessionsMap, progressMap, achievementsMap, now, reqs, lex>>

\* uploadAudio resolves: onAnalysisComplete, recorder.reset(), then finally
UploadResolves ==
    /\ ui.upload = "pending"
    /\ ui' = [ui EXCEPT !.upload = "none",
                        !.isRecording = FALSE,
                        !.audioBlob = 0,
                        !.isProcessing = FALSE,
                        !.effectDue = TRUE]
    /\ UNCHANGED <<users, sessionsMap, progressMap, achievementsMap, now, reqs, lex>>

\* uploadAudio throws: the toast, then finally
UploadRejects ==
    /\ ui.upload = "pending"
    /\ ui' = [ui EXCEPT !.upload = "none",
                        !.isProcessing = FALSE,
                        !.effectDue = TRUE]
    /\ UNCHANGED <<users, sessionsMap, progressMap, achievementsMap, now, reqs, lex>>

NextClient ==
    \/ startRecording
    \/ stopRecording
    \/ RecordingEffect
    \/ UploadResolves
    \/ UploadRejects

\* an empty store and `slots` request slots, none in use
InitWith(slots) ==
    /\ users = [id \in {} |-> [username |-> ""]]
    /\ sessionsMap = <<>>
    /\ progressMap = [id \in {} |-> InitialProgress]
    /\ achievementsMap = [id \in {} |-> <<>>]
    /\ now = 0
    /\ reqs = [r \in slots |-> IdleRequest]
    /\ lex = NoCall
    /\ ui = NoRecorder

Init == InitWith(Slots)

\* one user's submissions served concurrently within one calendar day
Next ==
    \/ UsersInit(DemoUserId, UuidPool)
    \/ \E r \in Slots :
        \/ \E userId \in DOMAIN users, body \in StoreInputs :
               Submit(r, userId, body, MaxInFlight, FALSE)
        \/ Step(r)

Spec == Init /\ [][Next]_vars

\* midnight passes while no submission is being served
NextDayBetweenCalls ==
    /\ \A r \in DOMAIN reqs : reqs[r].pc \in {"idle", "done"}
    /\ NextDay

\* one user, one submission at a time, each run to completion
NextSeq ==
    \/ NextDayBetweenCalls
    \/ UsersInit(DemoUserId, {"uuid-1"})
    \/ \E userId \in DOMAIN users, body \in StoreInputs : Submit(1, userId, body, MaxSeqSessions, TRUE)
    \/ Step(1)

SpecSeq == InitWith({1}) /\ [][NextSeq]_vars

\* one user, one submission at a time, midnight passing at any moment
NextClock ==
    \/ NextDay
    \/ UsersInit(DemoUserId, {"uuid-1"})
    \/ \E userId \in DOMAIN users, body \in StoreInputs : Submit(1, userId, body, MaxClockSessions, TRUE)
    \/ Step(1)

SpecClock == InitWith({1}) /\ [][NextClock]_vars

\* one submission at a time over the analyser's inputs
NextAnalyze ==
    \/ UsersInit(DemoUserId, {"uuid-1"})
    \/ \E userId \in DOMAIN users \cup {DemoUserId}, body \in AnalyzeInputs :
           Submit(1, userId, body, 1, FALSE)
    \/ Step(1)

SpecAnalyze == InitWith({1}) /\ [][NextAnalyze]_vars

MaxDaysSessions == 6

\* six minutes, scored 85 by the language model
ScenarioB ==
    Body("free", S_hi, 360000, Outcome("object", [FullPayload EXCEPT !.score = Whole(85)]))

\* one user submitting ScenarioB again and again, one submission at a time,
\* midnight passing at any moment
NextDays ==
    \/ NextDay
    \/ UsersInit(DemoUserId, {"uuid-1"})
    \/ \E userId \in DOMAIN users : Submit(1, userId, ScenarioB, MaxDaysSessions, TRUE)
    \/ Step(1)

SpecDays == InitWith({1}) /\ [][NextDays]_vars

MaxUsersSessions == 3

OtherUserId == "speaker-2"
UserSlots == {1, 2}

\* two users whose submissions are served concurrently, on two connections
NextUsers ==
    \/ UsersInit(DemoUserId, {"uuid-1"})
    \/ UsersInit(OtherUserId, {"uuid-2"})
    \/ \E r \in UserSlots :
        \/ \E userId \in DOMAIN users, body \in StoreInputs :
               Submit(r, userId, body, MaxUsersSessions, TRUE)
        \/ Step(r)

SpecUsers == InitWith(UserSlots) /\ [][NextUsers]_vars

MaxLiveSessions == 3

\* a submission whose language-model call never returns
Hanging == Body("free", S_hi, 10000, Outcome("pending", EmptyPayload))

LiveInputs == StoreInputs \cup {Hanging}

\* one user, one submission at a time, the model call possibly never returning
NextLive ==
    \/ UsersInit(DemoUserId, {"uuid-1"})
    \/ \E userId \in DOMAIN users, body \in LiveInputs :
           Submit(1, userId, body, MaxLiveSessions, TRUE)
    \/ Step(1)

\* the promise awaited at the language-model call has settled
Settled(r) == reqs[r].pc = "analyzing" /\ ~NeverSettles(reqs[r].body.outcome)

\* the event loop runs every continuation that is ready to run: weak fairness
\* of each step of the handler; for the two steps that compute an analysis or
\* a progress record, ENABLED is written out as the step's guard
RunsWhenReady(r) ==
    /\ WF_vars(CreateSession(r))
    /\ WF_vars(ReadSessions(r))
    /\ WF_vars(CheckAchievements(r))
    /\ WF_vars(Respond(r))
    /\ ([]<>(~Settled(r)) \/ []<><<AnalyzeDone(r)>>_vars)
    /\ ([]<>(reqs[r].pc # "update") \/ []<><<UpdateProgress(r)>>_vars)

SpecLive == InitWith({1}) /\ [][NextLive]_vars /\ RunsWhenReady(1)

\* The two routes that initialise a user, over the in-memory store: a user is
\* looked up by the id given in the request and created under a fresh id.
MaxUsers == 3
IdPool == {"uuid-1", "uuid-2", "uuid-3", "uuid-4"}
RouteUserIds == {DemoUserId, OtherUserId, "uuid-1"}

\* MemStorage.createUser: user, zeroed progress and empty achievements under
\* the new id
createUser(id, username) ==
    /\ users' = MapSet(users, id, [username |-> username])
    /\ progressMap' = MapSet(progressMap, id, [InitialProgress EXCEPT !.updatedAt = now])
    /\ achievementsMap' = MapSet(achievementsMap, id, <<>>)

Answered(userId, status) ==
    [IdleRequest EXCEPT !.pc = "done", !.userId = userId, !.status = status]

PostUsersInit(r, userId) ==
    /\ reqs[r].pc \in {"idle", "done"}
    /\ IF userId \in DOMAIN users
       THEN UNCHANGED <<users, progressMap, achievementsMap>>
       ELSE /\ Cardinality(DOMAIN users) < MaxUsers
            /\ \E id \in IdPool \ DOMAIN users : createUser(id, userId)
    /\ reqs' = [reqs EXCEPT ![r] = Answered(userId, 200)]
    /\ UNCHANGED <<sessionsMap, now, lex, ui>>

GetUserProgress(r, userId) ==
    /\ reqs[r].pc \in {"idle", "done"}
    /\ IF userId \in DOMAIN users
       THEN UNCHANGED <<users, progressMap, achievementsMap>>
       ELSE /\ Cardinality(DOMAIN users) < MaxUsers
            /\ \E id \in IdPool \ DOMAIN users : createUser(id, userId)
    /\ reqs' = [reqs EXCEPT ![r] =
           Answered(userId, IF userId \in DOMAIN progressMap' THEN 200 ELSE 404)]
    /\ UNCHANGED <<sessionsMap, now, lex, ui>>

NextInit ==
    \/ NextDay
    \/ \E userId \in RouteUserIds : PostUsersInit(1, userId)
    \/ \E userId \in RouteUserIds : GetUserProgress(1, userId)

SpecInit == InitWith({1}) /\ [][NextInit]_vars

\* one recording interface on its own
SpecClient == InitWith({1}) /\ [][NextClient]_vars

----------------------------------------------------------------------------
(* Direct calls of the pure helpers *)

LongWords == 180

S_I == <<"I">>
S_think == <<"t", "h", "i", "n", "k">>
S_this == <<"t", "h", "i", "s">>
S_is == <<"i", "s">>
S_a == <<"a">>
S_good == <<"g", "o", "o", "d">>
S_idea == <<"i", "d", "e", "a">>

\* "I think um this is uh a good idea you know"
ScenarioA ==
    Join(<<S_I, S_think, S_um, S_this, S_is, S_uh, S_a, S_good, S_idea, S_you, S_know>>)

\* a long speech without fillers: "a a ... a"
LongClean == [i \in 1..(2 * LongWords - 1) |-> IF i % 2 = 1 THEN "a" ELSE " "]

LexTexts == Transcripts \cup {ScenarioA, LongClean}

\* seconds: negative, zero, below one, and each side of the 30 s and 120 s steps
LexDurations ==
    {Whole(-10), Whole(0), Num(1, 2), Whole(1), Whole(10), Whole(30), Whole(120), Whole(360)}

\* words per minute on each side of every band edge, and the non-numbers
PaceInputs ==
    {Whole(w) : w \in {-66, 0, 60, 66, 69, 70, 89, 90, 109, 110, 125, 140, 141, 160, 161, 180, 181, 1000}}
    \cup {Num(1399, 10), Num(1401, 10), NaN, Infinity}

ClientWordCounts == {0, 5, 10}

LexCall(fn, text, durationSeconds, wpm, wordCount) ==
    [pc |-> "input", fn |-> fn, text |-> text, durationSeconds |-> durationSeconds,
     wpm |-> wpm, wordCount |-> wordCount, result |-> Undefined]

LexCalls ==
    {LexCall(fn, t, Whole(1), Whole(0), 0) :
        fn \in {"countWords", "countFillers", "calculateClarityScore"}, t \in LexTexts}
    \cup {LexCall(fn, t, d, Whole(0), 0) :
        fn \in {"calculateWPM", "calculateOverallScore"}, t \in LexTexts, d \in LexDurations}
    \cup {LexCall("getPaceScore", <<>>, Whole(1), w, 0) : w \in PaceInputs}
    \cup {LexCall("calculateWPM_client", <<>>, d, Whole(0), n) :
        n \in ClientWordCounts, d \in LexDurations}

LexFunctions == {call.fn : call \in LexCalls}

\* the value the helper returns for the arguments of the call
Apply(call) ==
    CASE call.fn = "countWords" -> Whole(countWords(call.text))
      [] call.fn = "countFillers" -> Whole(countFillers(call.text))
      [] call.fn = "calculateClarityScore" -> calculateClarityScore(call.text)
      [] call.fn = "calculateWPM" -> calculateWPM(call.text, call.durationSeconds)
      [] call.fn = "calculateOverallScore" -> calculateOverallScore(call.text, call.durationSeconds)
      [] call.fn = "getPaceScore" -> getPaceScore(call.wpm)
      [] call.fn = "calculateWPM_client" -> calculateWPM_client(call.wordCount, call.durationSeconds)

\* the helper fn runs and returns
Return(fn) ==
    /\ lex.pc = "input"
    /\ lex.fn = fn
    /\ lex' = [lex EXCEPT !.pc = "returned", !.result = Apply(lex)]
    /\ UNCHANGED <<users, sessionsMap, progressMap, achievementsMap, now, reqs, ui>>

InitLexical ==
    /\ users = [id \in {} |-> [username |-> ""]]
    /\ sessionsMap = <<>>
    /\ progressMap = [id \in {} |-> InitialProgress]
    /\ achievementsMap = [id \in {} |-> <<>>]
    /\ now = 0
    /\ reqs = [r \in {} |-> IdleRequest]
    /\ lex \in LexCalls
    /\ ui = NoRecorder

NextLexical == \E fn \in LexFunctions : Return(fn)

SpecLexical == InitLexical /\ [][NextLexical]_vars

----------------------------------------------------------------------------
(* Properties *)

\* no submission is being served
Quiescent == \A r \in DOMAIN reqs : reqs[r].pc \in {"idle", "done"}

\* the slots whose analysis has been returned by analyzeAudio
Analysed == {r \in DOMAIN reqs : reqs[r].pc \in {"create", "progress", "update", "achievements", "respond"}}

SessionsOf(userId) == SelectSeq(sessionsMap, LAMBDA session : session.userId = userId)

TypeCount(userId, type) ==
    Cardinality({i \in 1..Len(achievementsMap[userId]) : achievementsMap[userId][i].type = type})

\* C1: when createSession calls run one after the other, each to completion,
\* no user's achievement list ever holds two achievements of the same type.
C1_AchievementsUnique ==
    \A userId \in DOMAIN achievementsMap :
        \A i, j \in 1..Len(achievementsMap[userId]) :
            achievementsMap[userId][i].type = achievementsMap[userId][j].type => i = j

\* C1 witness: a user holds all three types after seven completed sessions,
\* several of which met the score and the duration rule
C1_Witness ==
    /\ Quiescent
    /\ \E userId \in DOMAIN achievementsMap :
        /\ AchievementTypes(achievementsMap, userId) = {"streak_7", "score_80", "time_master"}
        /\ Cardinality({i \in 1..Len(sessionsMap) :
               /\ sessionsMap[i].userId = userId
               /\ RGe(sessionsMap[i].score, Whole(ScoreTarget))
               /\ sessionsMap[i].durationMs >= TimeMasterMs}) >= 2

\* C2: once every concurrent createSession of a user has completed,
\* totalSessions counts all of the user's sessions and bestScore is the
\* maximum of their scores (no lost update).
C2_NoLostUpdate ==
    Quiescent =>
        \A userId \in DOMAIN progressMap :
            LET mine == SessionsOf(userId)
                best == progressMap[userId].bestScore
            IN  /\ progressMap[userId].totalSessions = Len(mine)
                /\ \A i \in 1..Len(mine) : RLe(mine[i].score, best)
                /\ Len(mine) > 0 => \E i \in 1..Len(mine) : mine[i].score = best

\* C3: under every interleaving of two createSession calls of one user,
\* each achievement type is created at most once for that user.
C3_NoDuplicateAchievement ==
    \A userId \in DOMAIN achievementsMap :
        \A type \in {AchievementRules[i] : i \in 1..Len(AchievementRules)} :
            TypeCount(userId, type) <= 1

\* the deterministic fallback analysis of (transcript, durationMs), field by
\* field from the lexical metrics and the fixed defaults
C4_Fallback(transcript, durationMs) ==
    LET seconds == Num(durationMs, 1000)
        fillers == countFillers(transcript)
    IN  [transcript |-> <<[start_ms |-> Whole(0), end_ms |-> Whole(durationMs),
                          text |-> transcript, tokens |-> tokenizeTranscript(transcript)]>>,
         metrics |->
             [total_words |-> Whole(countWords(transcript)),
              words_per_minute |-> calculateWPM(transcript, seconds),
              total_fillers |-> Whole(fillers),
              fillers_per_minute |-> Num(fillers * 60000, durationMs),
              avg_pause_ms |-> Whole(400),
              energy_mean |-> Whole(-18),
              pitch_median_hz |-> Whole(180),
              clarity_score |-> calculateClarityScore(transcript),
              confidence |-> Num(85, 100),
              paceScore |-> getPaceScore(calculateWPM(transcript, seconds)),
              fillerImprovement |-> Whole(IF fillers >= 10 THEN 0 ELSE 100 - 10 * fillers)],
         fillerBreakdown |-> getFillerBreakdown(transcript),
         highlights |-> generateHighlights(transcript),
         recommendations |-> generateRecommendations(transcript, seconds),
         score |-> calculateOverallScore(transcript, seconds)]

\* C4: when the model call rejects or its content is not parsable JSON, the
\* analysis analyzeAudio returns equals the deterministic fallback analysis
\* of the same transcript and duration, field for field.
C4_FailureGivesFallback ==
    \A r \in Analysed :
        reqs[r].body.outcome.kind \in {"reject", "unparsable"} =>
            reqs[r].analysis = C4_Fallback(reqs[r].body.transcript, reqs[r].body.durationMs)

\* C4 witness: an analysis returned after unparsable content, for a transcript
\* with filler words
C4_Witness ==
    \E r \in Analysed :
        /\ reqs[r].body.outcome.kind = "unparsable"
        /\ countFillers(reqs[r].body.transcript) > 0
        /\ countWords(reqs[r].body.transcript) > 1

\* a metric value the data model accepts
ValidMetric(name, v) ==
    /\ v.k = "num"
    /\ name \in {"total_words", "total_fillers"} => (v.d = 1 /\ v.n >= 0)
    /\ name \in {"words_per_minute", "fillers_per_minute"} => v.n >= 0
    /\ name \in {"clarity_score", "confidence"} => (v.n >= 0 /\ RLe(v, Whole(1)))
    /\ name \in {"paceScore", "fillerImprovement"} => (v.n >= 0 /\ RLe(v, Whole(100)))

\* a score the data model accepts: an integer in [0,100]
ValidScore(v) == v.k = "num" /\ v.d = 1 /\ v.n >= 0 /\ v.n <= 100

\* C5: on a parsed payload the merge is field-level: a present and valid field
\* (0 included) is kept unchanged, every other field gets the fallback value.
C5_FieldLevelMerge ==
    \A r \in Analysed :
        reqs[r].body.outcome.kind = "object" =>
            LET payload == reqs[r].body.outcome.payload
                fallback == C4_Fallback(reqs[r].body.transcript, reqs[r].body.durationMs)
                result == reqs[r].analysis
            IN  /\ \A name \in MetricNames :
                       result.metrics[name] =
                           IF ValidMetric(name, PayloadMetric(payload, name))
                           THEN PayloadMetric(payload, name)
                           ELSE fallback.metrics[name]
                /\ result.score = IF ValidScore(payload.score) THEN payload.score
                                  ELSE fallback.score
                /\ result.transcript = StructOrElse(payload.transcript, fallback.transcript)
                /\ result.fillerBreakdown =
                       StructOrElse(payload.fillerBreakdown, fallback.fillerBreakdown)
                /\ result.highlights = StructOrElse(payload.highlights, fallback.highlights)
                /\ result.recommendations =
                       StructOrElse(payload.recommendations, fallback.recommendations)

\* C6: whatever the model returns, the analysis returned and every session
\* stored carry an integer score in [0,100].
C6_ScoreInRange ==
    /\ \A r \in Analysed : ValidScore(reqs[r].analysis.score)
    /\ \A i \in 1..Len(sessionsMap) : ValidScore(sessionsMap[i].score)

\* a transcript that is empty or whitespace only, or a duration that is not positive
BlankOrNonPositive(body) ==
    \/ \A i \in 1..Len(body.transcript) : IsWs(body.transcript[i])
    \/ body.durationMs <= 0

\* C7: a submission with a blank transcript or a non-positive duration is
\* answered with an error in the step that receives it (analyzeAudio is never
\* called for it) and the sessions, progress records and achievements stay as
\* they were.
C7_InvalidRejectedUntouched ==
    [][\A r \in DOMAIN reqs :
          (reqs[r].pc \in {"idle", "done"} /\ reqs'[r] # reqs[r]
             /\ BlankOrNonPositive(reqs'[r].body))
          => /\ reqs'[r].pc = "done"
             /\ reqs'[r].status = 400
             /\ UNCHANGED <<sessionsMap, progressMap, achievementsMap>>]_vars

\* C7 witness: a known user's submission with a spoken transcript and a
\* negative duration has been answered with status 400
C7_Witness ==
    \E r \in DOMAIN reqs :
        /\ reqs[r].pc = "done"
        /\ reqs[r].status = 400
        /\ reqs[r].userId \in DOMAIN progressMap
        /\ countWords(reqs[r].body.transcript) > 0
        /\ reqs[r].body.durationMs < 0

\* C8: a submission for a userId without a progress record is not answered
\* as a success: status 200 is sent only for users whose progress exists.
C8_MissingProgressSurfaces ==
    \A r \in DOMAIN reqs :
        (reqs[r].pc = "done" /\ reqs[r].status = 200) => reqs[r].userId \in DOMAIN progressMap

\* the calendar days on which the user has a session
SessionDays(userId) ==
    {sessionsMap[i].createdAt.day : i \in {j \in 1..Len(sessionsMap) : sessionsMap[j].userId = userId}}

Latest(days) == CHOOSE d \in days : \A e \in days : e <= d

\* the number of consecutive days with a session, ending with the latest one
ConsecutiveDays(userId) ==
    LET days == SessionDays(userId)
        last == Latest(days)
    IN  CHOOSE k \in 1..(last + 1) :
            /\ \A j \in 0..(k - 1) : (last - j) \in days
            /\ (last - k) \notin days

\* C9: after any sequence of sessions, currentStreak is the number of
\* consecutive calendar days, ending with the day of the latest session, on
\* which the user completed a session.
C9_StreakIsConsecutiveDays ==
    Quiescent =>
        \A userId \in DOMAIN progressMap :
            SessionDays(userId) # {} =>
                progressMap[userId].currentStreak = ConsecutiveDays(userId)

\* the slots whose progress update has been computed and written
Updated == {r \in DOMAIN reqs : reqs[r].pc = "achievements"}

OnlyScenarioB(userId) ==
    /\ Quiescent
    /\ Len(SessionsOf(userId)) = 1
    /\ SessionsOf(userId)[1].durationMs = 360000
    /\ SessionsOf(userId)[1].score = Whole(85)

ScenarioBResult(userId) ==
    /\ progressMap[userId].currentStreak = 1
    /\ progressMap[userId].bestScore = Whole(85)
    /\ progressMap[userId].totalSessions = 1
    /\ AchievementTypes(achievementsMap, userId) = {"score_80", "time_master"}
    /\ Len(achievementsMap[userId]) = 2

\* C11 as stated: for a first-time user, one session of 360000 ms scored 85
\* yields streak 1, bestScore 85, totalSessions 1 and exactly the achievements
\* score_80 and time_master.
C11_FirstSession ==
    \A userId \in DOMAIN progressMap : OnlyScenarioB(userId) => ScenarioBResult(userId)

\* the same holds when the progress update runs on the calendar day on which
\* the session was created
C11_FirstSessionSameDay ==
    \A userId \in DOMAIN progressMap :
        (OnlyScenarioB(userId)
           /\ progressMap[userId].updatedAt = SessionsOf(userId)[1].createdAt.day)
        => ScenarioBResult(userId)

\* C12: every accepted submission is eventually answered with its session
\* persisted, even when the language-model call never returns.
C12_AcceptedEventuallyAnswered ==
    (reqs[1].pc = "analyzing")
        ~> (/\ reqs[1].pc = "done"
            /\ reqs[1].status = 200
            /\ \E i \in 1..Len(sessionsMap) : sessionsMap[i].userId = reqs[1].userId)

\* C13: a step of the submission of one user leaves the progress record and
\* the achievement list of every other user as they were, whatever the
\* interleaving: a record changes only in a step of a submission of its user.
C13_OtherUsersUntouched ==
    [][\A other \in DOMAIN progressMap :
          (progressMap'[other] # progressMap[other]
             \/ achievementsMap'[other] # achievementsMap[other])
          => \E r \in DOMAIN reqs : reqs'[r] # reqs[r] /\ reqs[r].userId = other]_vars

\* C13 witness: the submissions of two users are in the middle of their
\* updates together, one having written its progress and created an
\* achievement, and the two progress records differ
C13_Witness ==
    \E r1, r2 \in DOMAIN reqs :
        /\ reqs[r1].userId # reqs[r2].userId
        /\ reqs[r1].pc = "achievements" /\ reqs[r1].rule > 1
        /\ reqs[r2].pc \in {"update", "achievements"}
        /\ progressMap[reqs[r1].userId].bestScore # progressMap[reqs[r2].userId].bestScore
        /\ Len(achievementsMap[reqs[r1].userId]) > 0

\* the helper fn has returned from the direct call
Returned(fn) == lex.pc = "returned" /\ lex.fn = fn

\* the text holds a character that is not whitespace
HasWord(text) == \E i \in 1..Len(text) : ~IsWs(text[i])

\* C14: for every transcript with at least one word and every positive
\* duration, calculateOverallScore returns an integer from 0 to 100.
C14_OverallScoreInRange ==
    (Returned("calculateOverallScore") /\ HasWord(lex.text) /\ lex.durationSeconds.n > 0)
    => (lex.result.k = "num" /\ lex.result.d = 1 /\ lex.result.n >= 0 /\ lex.result.n <= 100)

\* C14 witness: a long clean speech, whose unclamped score is above 100,
\* scores exactly 100
C14_Witness ==
    /\ Returned("calculateOverallScore")
    /\ lex.text = LongClean
    /\ lex.durationSeconds = Whole(120)
    /\ lex.result = Whole(100)

\* lo <= w <= hi for a number w
Within(w, lo, hi) == w.k = "num" /\ lo * w.d <= w.n /\ w.n <= hi * w.d

\* C15: getPaceScore is 100 on [110,140], 80 on the rest of [90,160], 60 on
\* the rest of [70,180] and 40 elsewhere; the edges 110 and 140 give 100, 90
\* and 160 give 80, 70 and 180 give 60.
C15_PaceBands ==
    Returned("getPaceScore") =>
        /\ Within(lex.wpm, 110, 140) => lex.result = Whole(100)
        /\ (Within(lex.wpm, 90, 160) /\ ~Within(lex.wpm, 110, 140)) => lex.result = Whole(80)
        /\ (Within(lex.wpm, 70, 180) /\ ~Within(lex.wpm, 90, 160)) => lex.result = Whole(60)
        /\ ~Within(lex.wpm, 70, 180) => lex.result = Whole(40)
        /\ lex.wpm \in {Whole(110), Whole(140)} => lex.result = Whole(100)
        /\ lex.wpm \in {Whole(90), Whole(160)} => lex.result = Whole(80)
        /\ lex.wpm \in {Whole(70), Whole(180)} => lex.result = Whole(60)

\* C15 witness: the upper edge of the second band
C15_Witness == Returned("getPaceScore") /\ lex.wpm = Whole(160) /\ lex.result = Whole(80)

\* no whitespace-separated token of the lower-cased text contains a filler
NoFillerToken(text) ==
    LET tokens == SplitWs(ToLowerCase(text))
        fillers == {S_um, S_uh, S_like, S_you \o S_know, S_so, S_basically, S_actually,
                    S_literally}
    IN  \A i \in 1..Len(tokens) : \A filler \in fillers : ~Includes(tokens[i], filler)

\* C16: calculateClarityScore is always between 0.3 and 1.0, and exactly 1.0
\* for a transcript with at least one word and no filler token.
C16_ClarityBounds ==
    Returned("calculateClarityScore") =>
        /\ lex.result.k = "num"
        /\ RLe(Num(3, 10), lex.result) /\ RLe(lex.result, Whole(1))
        /\ (HasWord(lex.text) /\ NoFillerToken(lex.text)) => lex.result = Whole(1)

\* C16 witness: two clean words give 1.0
C16_Witness ==
    /\ Returned("calculateClarityScore")
    /\ lex.text = S_hi \o <<" ">> \o S_hi
    /\ lex.result = Whole(1)

\* C17: calculateWPM, on the server and in the client, returns
\* round(wordCount / durationSeconds * 60) for a positive duration and 0 for
\* a zero or negative one.
C17_WPMFailsClosed ==
    (Returned("calculateWPM") \/ Returned("calculateWPM_client")) =>
        LET wordCount == IF lex.fn = "calculateWPM" THEN countWords(lex.text) ELSE lex.wordCount
        IN  lex.result =
                IF lex.durationSeconds.n > 0
                THEN MathRound(Num(wordCount * 60 * lex.durationSeconds.d, lex.durationSeconds.n))
                ELSE Whole(0)

\* C18 as stated: "I think um this is uh a good idea you know" over 10 s has
\* 10 words, at least 3 fillers, 60 words per minute, pace score 40 and
\* clarity 0.4.
C18_ScenarioAStated ==
    /\ (lex.pc = "returned" /\ lex.text = ScenarioA) =>
        /\ lex.fn = "countWords" => lex.result = Whole(10)
        /\ lex.fn = "countFillers" => (lex.result.k = "num" /\ lex.result.n >= 3)
        /\ (lex.fn = "calculateWPM" /\ lex.durationSeconds = Whole(10)) => lex.result = Whole(60)
        /\ lex.fn = "calculateClarityScore" => lex.result = Num(4, 10)
    /\ (Returned("getPaceScore") /\ lex.wpm = Whole(60)) => lex.result = Whole(40)

\* C18 amended: the same transcript over 10 s has 11 words, 2 fillers, 66
\* words per minute, pace score 40 and clarity 7/11.
C18_ScenarioA ==
    /\ (lex.pc = "returned" /\ lex.text = ScenarioA) =>
        /\ lex.fn = "countWords" => lex.result = Whole(11)
        /\ lex.fn = "countFillers" => lex.result = Whole(2)
        /\ (lex.fn = "calculateWPM" /\ lex.durationSeconds = Whole(10)) => lex.result = Whole(66)
        /\ lex.fn = "calculateClarityScore" => lex.result = Num(7, 11)
    /\ (Returned("getPaceScore") /\ lex.wpm = Whole(66)) => lex.result = Whole(40)

\* C18 witness: the fillers of the transcript have been counted
C18_Witness == Returned("countFillers") /\ lex.text = ScenarioA /\ lex.result = Whole(2)

\* the sessions of the user of request r that have fewer than RecentLimit
\* later sessions of the same user in the store
MostRecent(r) ==
    {sessionsMap[i] : i \in {k \in DOMAIN sessionsMap :
        /\ sessionsMap[k].userId = reqs[r].userId
        /\ Cardinality({j \in DOMAIN sessionsMap :
               j > k /\ sessionsMap[j].userId = reqs[r].userId}) < RecentLimit}}

\* C19: the new streak follows the ordered decision list: a session today and
\* no earlier lastSessionAt gives 1; otherwise sessions today and yesterday
\* give the previous streak plus 1; otherwise no session yesterday gives 1;
\* otherwise the streak is kept. Today and yesterday are judged over the
\* user's 5 most recent sessions, the new one among them.
C19_StreakDecisionList ==
    \A r \in Updated :
        LET previous == reqs[r].currentProgress[1]
            recent == MostRecent(r)
            onToday == \E s \in recent : s.createdAt.day = reqs[r].today
            onYesterday == \E s \in recent : s.createdAt.day = reqs[r].today - 1
            first == onToday /\ previous.lastSessionAt = NullDate
            second == ~first /\ onToday /\ onYesterday
            third == ~first /\ ~second /\ ~onYesterday
            fourth == ~first /\ ~second /\ ~third
        IN  /\ reqs[r].session[1] \in recent
            /\ Cardinality(recent) <= 5
            /\ {reqs[r].recentSessions[i] : i \in DOMAIN reqs[r].recentSessions} = recent
            /\ first => reqs[r].newStreak = 1
            /\ second => reqs[r].newStreak = previous.currentStreak + 1
            /\ third => reqs[r].newStreak = 1
            /\ fourth => reqs[r].newStreak = previous.currentStreak
            /\ progressMap[reqs[r].userId].currentStreak = reqs[r].newStreak

\* C19 witness: a sixth session is recorded on a day with five sessions; the
\* session of the day before is no longer among the 5 most recent and the
\* streak falls back to 1
C19_Witness ==
    \E r \in Updated :
        /\ Len(SessionsOf(reqs[r].userId)) = 6
        /\ \E s \in {sessionsMap[i] : i \in DOMAIN sessionsMap} \ MostRecent(r) :
               s.userId = reqs[r].userId /\ s.createdAt.day = reqs[r].today - 1
        /\ reqs[r].currentProgress[1].currentStreak > 1
        /\ reqs[r].newStreak = 1

\* the best score recorded in progress for the user is the greatest score
\* among the user's sessions in the store
BestScoreIsMax(progress, sessions, userId) ==
    LET mine == {i \in DOMAIN sessions : sessions[i].userId = userId}
    IN  mine # {} =>
            /\ \E i \in mine : sessions[i].score = progress[userId].bestScore
            /\ \A i \in mine : RLe(sessions[i].score, progress[userId].bestScore)

\* C20: for a user whose progress started zeroed, bestScore never decreases,
\* and once a createSession call has completed it equals the maximum score
\* over all of the user's sessions.
C20_BestScoreIsMaximum ==
    [][/\ \A userId \in DOMAIN progressMap \cap DOMAIN progressMap' :
              RLe(progressMap[userId].bestScore, progressMap'[userId].bestScore)
       /\ (\A r \in DOMAIN reqs : reqs'[r].pc \in {"idle", "done"}) =>
              \A userId \in DOMAIN progressMap' :
                  BestScoreIsMax(progressMap', sessionsMap', userId)]_vars

\* C21: whenever no submission is in flight, every progress record counts the
\* sessions persisted for its user in totalSessions and holds the createdAt of
\* the user's most recently created session in lastSessionAt.
C21_CountAndLastSession ==
    Quiescent =>
        \A userId \in DOMAIN progressMap :
            LET mine == SessionsOf(userId)
            IN  /\ progressMap[userId].totalSessions = Len(mine)
                /\ progressMap[userId].lastSessionAt =
                       IF mine = <<>> THEN NullDate ELSE mine[Len(mine)].createdAt

\* the total of a metric over a set of stored sessions, a missing metric
\* counting as 0
RECURSIVE MetricTotal(_, _)
MetricTotal(sessions, name) ==
    IF sessions = {} THEN Whole(0)
    ELSE LET s == CHOOSE x \in sessions : TRUE
             v == s.metrics[name]
         IN  RAdd(IF v.k = "num" THEN v ELSE Whole(0), MetricTotal(sessions \ {s}, name))

\* C22: after a session creation, avgFillerReduction and avgPaceControl are
\* the arithmetic means of fillerImprovement and paceScore over the user's
\* min(5, n) most recently created sessions, the new one among them.
C22_RollingAverages ==
    \A r \in Updated :
        LET recent == MostRecent(r)
            n == Len(SessionsOf(reqs[r].userId))
            progress == progressMap[reqs[r].userId]
        IN  /\ reqs[r].session[1] \in recent
            /\ Cardinality(recent) = (IF n < 5 THEN n ELSE 5)
            /\ RMul(progress.avgFillerReduction, Whole(Cardinality(recent)))
                   = MetricTotal(recent, "fillerImprovement")
            /\ RMul(progress.avgPaceControl, Whole(Cardinality(recent)))
                   = MetricTotal(recent, "paceScore")

\* C22 witness: a sixth session has been created, the oldest session differs
\* in fillerImprovement from every one of the 5 most recent, and the average
\* is that of the 5 most recent
C22_Witness ==
    \E r \in Updated :
        /\ Len(SessionsOf(reqs[r].userId)) = 6
        /\ \A s \in MostRecent(r) :
               s.metrics["fillerImprovement"]
                   # SessionsOf(reqs[r].userId)[1].metrics["fillerImprovement"]
        /\ progressMap[reqs[r].userId].avgFillerReduction
               # SessionsOf(reqs[r].userId)[1].metrics["fillerImprovement"]

\* the achievement types the user holds in the given store
TypesOf(achievements, userId) ==
    {achievements[userId][i].type : i \in 1..Len(achievements[userId])}

\* the number of achievements of a type the user holds in the given store
Held(achievements, userId, type) ==
    Cardinality({i \in 1..Len(achievements[userId]) : achievements[userId][i].type = type})

\* the condition of an achievement type for the session and streak of request r
Earned(type, r) ==
    \/ type = "streak_7" /\ reqs[r].newStreak >= 7
    \/ type = "score_80" /\ RGe(reqs[r].session[1].score, Whole(80))
    \/ type = "time_master" /\ reqs[r].session[1].durationMs >= 300000

\* C23: when the achievements of a session have been evaluated, every type
\* whose condition holds for the session is in the user's achievement set,
\* each type on its own; and an achievement is only ever created by a session
\* whose condition for that type holds.
C23_RulesIndependent ==
    [][/\ \A r \in DOMAIN reqs :
              (reqs[r].pc = "achievements" /\ reqs'[r].pc = "respond") =>
                  \A type \in {"streak_7", "score_80", "time_master"} :
                      Earned(type, r) => type \in TypesOf(achievementsMap', reqs[r].userId)
       /\ \A userId \in DOMAIN achievementsMap :
            \A type \in TypesOf(achievementsMap', userId) :
              Held(achievementsMap', userId, type) > Held(achievementsMap, userId, type) =>
                  \E r \in DOMAIN reqs :
                      /\ reqs[r].pc = "achievements"
                      /\ reqs[r].userId = userId
                      /\ reqs'[r] # reqs[r]
                      /\ Earned(type, r)
      ]_vars

\* C23 witness: the first session of a user has unlocked two types and the
\* evaluation is over
C23_Witness ==
    \E r \in DOMAIN reqs :
        /\ reqs[r].pc = "respond"
        /\ reqs[r].userId \in DOMAIN achievementsMap
        /\ Len(SessionsOf(reqs[r].userId)) = 1
        /\ TypesOf(achievementsMap, reqs[r].userId) = {"score_80", "time_master"}

\* C24: within one submission the session is stored only once the analysis is
\* available, the progress update has read a session list that contains the
\* new session, the achievements are evaluated with the streak that progress
\* update wrote, and the response is sent only after the analysis, the stored
\* session, the progress update and the evaluation of the achievements.
C24_PipelineOrder ==
    [][\A r \in DOMAIN reqs :
          /\ (reqs[r].session = <<>> /\ reqs'[r].session # <<>>) =>
                 /\ reqs[r].pc = "create"
                 /\ reqs[r].analysis # NoAnalysis
                 /\ reqs'[r].session[1].score = reqs[r].analysis.score
                 /\ sessionsMap' = Append(sessionsMap, reqs'[r].session[1])
          /\ (reqs[r].pc = "update" /\ reqs'[r].pc # "update") =>
                 /\ \E i \in DOMAIN reqs[r].recentSessions :
                        reqs[r].recentSessions[i] = reqs[r].session[1]
                 /\ reqs'[r].pc = "achievements"
                 /\ progressMap'[reqs[r].userId].currentStreak = reqs'[r].newStreak
          /\ (reqs[r].pc = "achievements" /\ reqs'[r].pc = "achievements") =>
                 reqs'[r].newStreak = reqs[r].newStreak
          /\ (reqs[r].pc # "respond" /\ reqs'[r].pc = "respond") =>
                 reqs[r].pc = "achievements"
          /\ (reqs[r].pc # "done" /\ reqs'[r].pc = "done" /\ reqs'[r].status = 200) =>
                 reqs[r].pc = "respond"
      ]_vars

\* the progress record holds, in each of the six fields, what the update of
\* request r computes from the record and the session list that r has read
WholeUpdate(progress, r) ==
    LET previous == reqs[r].currentProgress[1]
        session == reqs[r].session[1]
        n == Len(reqs[r].recentSessions)
    IN  /\ progress.totalSessions = previous.totalSessions + 1
        /\ progress.lastSessionAt = session.createdAt
        /\ progress.bestScore
               = (IF RGe(session.score, previous.bestScore) THEN session.score
                  ELSE previous.bestScore)
        /\ progress.currentStreak \in {1, previous.currentStreak, previous.currentStreak + 1}
        /\ RMul(progress.avgFillerReduction, Whole(n))
               = MetricTotal({reqs[r].recentSessions[i] : i \in 1..n}, "fillerImprovement")
        /\ RMul(progress.avgPaceControl, Whole(n))
               = MetricTotal({reqs[r].recentSessions[i] : i \in 1..n}, "paceScore")

\* C25: a progress record changes only by the update of one session, and that
\* update writes totalSessions, currentStreak, bestScore, avgFillerReduction,
\* avgPaceControl and lastSessionAt in the same step: no step leaves a record
\* with some of these fields from the new session and others not.
C25_AtomicProgressUpdate ==
    [][\A userId \in DOMAIN progressMap :
          progressMap'[userId] # progressMap[userId] =>
              \E r \in DOMAIN reqs :
                  /\ reqs[r].pc = "update"
                  /\ reqs'[r].pc = "achievements"
                  /\ reqs[r].userId = userId
                  /\ WholeUpdate(progressMap'[userId], r)
      ]_vars

\* C25 witness: an update has replaced the count, the best score, the average
\* and the last session of a record that another session had written before
C25_Witness ==
    \E r \in Updated :
        LET previous == reqs[r].currentProgress[1]
            progress == progressMap[reqs[r].userId]
        IN  /\ previous.totalSessions > 0
            /\ WholeUpdate(progress, r)
            /\ progress.bestScore # previous.bestScore
            /\ progress.lastSessionAt # previous.lastSessionAt
            /\ progress.avgFillerReduction # previous.avgFillerReduction

\* C26: a further session on a calendar day on which the user already has a
\* session leaves currentStreak as it was.
C26_SameDaySessionKeepsStreak ==
    [][\A r \in DOMAIN reqs :
          (/\ reqs[r].pc = "update"
           /\ reqs'[r].pc = "achievements"
           /\ \E i \in DOMAIN sessionsMap :
                  /\ sessionsMap[i].userId = reqs[r].userId
                  /\ sessionsMap[i] # reqs[r].session[1]
                  /\ sessionsMap[i].createdAt.day = reqs[r].session[1].createdAt.day)
          => progressMap'[reqs[r].userId].currentStreak
                 = progressMap[reqs[r].userId].currentStreak
      ]_vars

\* C27: once a route that initialises users has run for a userId, the store
\* holds a user and a progress record under that userId, and running it for a
\* userId that was initialised before creates no further record.
C27_InitIdempotent ==
    [][(now' = now /\ reqs'[1].pc = "done") =>
          LET userId == reqs'[1].userId
          IN  /\ userId \in DOMAIN users'
              /\ userId \in DOMAIN progressMap'
              /\ (\E id \in DOMAIN users : users[id].username = userId) =>
                     (users' = users /\ progressMap' = progressMap)
      ]_vars

\* C28: a finished recording triggers at most one call of uploadAudio, also
\* when that call fails.
C28_OneUploadPerRecording ==
    \A k \in DOMAIN ui.calls : ui.calls[k] <= 1

\* C29: no step changes weeklyGoal or weeklyCompleted of a progress record:
\* session creation writes the other fields only, and weeklyCompleted stays at
\* its initial 0 across any sequence of sessions.
C29_WeeklyFieldsKept ==
    [][\A userId \in DOMAIN progressMap :
          /\ userId \in DOMAIN progressMap'
          /\ DOMAIN progressMap'[userId] = DOMAIN progressMap[userId]
          /\ progressMap'[userId].weeklyGoal = progressMap[userId].weeklyGoal
          /\ progressMap'[userId].weeklyCompleted = progressMap[userId].weeklyCompleted
          /\ progressMap'[userId].weeklyCompleted = 0
      ]_vars

\* C29 witness: three sessions of a user have been counted over two days and
\* the weekly fields are those of the initial record
C29_Witness ==
    \E r \in Updated :
        LET progress == progressMap[reqs[r].userId]
        IN  /\ progress.totalSessions = 3
            /\ progress.currentStreak > 1
            /\ progress.updatedAt > 0
            /\ progress.lastSessionAt = reqs[r].session[1].createdAt
            /\ progress.weeklyGoal = 7
            /\ progress.weeklyCompleted = 0

\* C30: in the fallback analysis of an accepted transcript the single segment
\* has exactly metrics.total_words tokens, the token at position i (from 0)
\* occupies [i*500, (i+1)*500), and no token has empty text.
C30_TokensMatchWords ==
    \A r \in Analysed :
        reqs[r].body.outcome.kind = "reject" =>
            LET segments == reqs[r].analysis.transcript
                tokens == segments[1].tokens
            IN  /\ Len(segments) = 1
                /\ Whole(Len(tokens)) = reqs[r].analysis.metrics["total_words"]
                /\ \A i \in 1..Len(tokens) :
                       /\ tokens[i].start_ms = (i - 1) * 500
                       /\ tokens[i].end_ms = i * 500
                       /\ tokens[i].t # <<>>

====
